---- MODULE Spec2Model ----
(***************************************************************************)
(* TRON sign-request / signature codecs of ur-registry-ffi.                *)
(*                                                                         *)
(* Representation.                                                         *)
(*   text        a sequence of one-character strings; a string literal of  *)
(*               the source that is never taken apart (an error message    *)
(*               prefix) is one element                                    *)
(*   Vec<u8>     a sequence of 0..255                                      *)
(*   u32         <<hi, lo>>, two 16-bit limbs, value hi * 2^16 + lo        *)
(*   Option<T>   <<>> for None, <<x>> for Some(x)                          *)
(*   Result      <<TRUE, x>> for Ok(x), <<FALSE, message>> for Err(message)*)
(*   Response    <<kind, payload>>                                         *)
(*   cbor Value  <<tag, content>>; an Integer's content is                 *)
(*               <<top, hi, lo>>, value top * 2^32 + hi * 2^16 + lo; a     *)
(*               Map's content is a function from its integer keys         *)
(*   wire bytes  [cbor |-> TRUE, item |-> Value] for a well-formed CBOR    *)
(*               encoding of the item, [cbor |-> FALSE, item |-> <<>>] for *)
(*               bytes serde_cbor rejects                                  *)
(***************************************************************************)
EXTENDS Integers, Sequences, FiniteSets, TLC

\* ------------------------------------------------------------------------
\* Bounds of the explored input space
\* ------------------------------------------------------------------------
MaxPathLen == 4
MaxComponents == 2
MaxEntries == 2

\* ------------------------------------------------------------------------
\* Program constants
\* ------------------------------------------------------------------------
REQUEST_ID == 1
SIGN_DATA == 2
DATA_TYPE == 3
DERIVATION_PATH == 4
ADDRESS == 5
ORIGIN == 6
SIGNATURE == 2

Limb == 2^16

\* ------------------------------------------------------------------------
\* Basic values
\* ------------------------------------------------------------------------
None == <<>>
Some(x) == <<x>>

Ok(x) == <<TRUE, x>>
Err(m) == <<FALSE, m>>
\* a Result: whether it is Ok, and the value or the error message it holds
IsOk(r) == r[1]
Inner(r) == r[2]

U32(n) == <<n \div Limb, n % Limb>>

\* a cbor Value: its variant and what the variant holds
Tag(x) == x[1]
Body(x) == x[2]

VInteger(top, u) == <<"integer", <<top, u[1], u[2]>>>>
VBytes(b) == <<"bytes", b>>
VText(s) == <<"text", s>>
VBool(b) == <<"bool", b>>
VArray(a) == <<"array", a>>
VMap(m) == <<"map", m>>

\* `x as i128` for a u32 x
AsI128(u) == VInteger(0, u)
\* `*i as u32` for the i128 of a Value::Integer: the low 32 bits
AsU32(val) == <<Body(val)[2], Body(val)[3]>>

\* BTreeMap::get with a Value::Integer key
MapGet(m, k) == IF k \in DOMAIN m THEN Some(m[k]) ELSE None
\* BTreeMap::insert
MapInsert(m, k, val) == [j \in (DOMAIN m) \cup {k} |-> IF j = k THEN val ELSE m[j]]

\* ------------------------------------------------------------------------
\* Text helpers of the standard library, as the path code uses them
\* ------------------------------------------------------------------------
Digits == <<"0", "1", "2", "3", "4", "5", "6", "7", "8", "9">>
IsDigit(c) == \E i \in 1..10 : Digits[i] = c
DigitVal(c) == (CHOOSE i \in 1..10 : Digits[i] = c) - 1

\* str::trim_start_matches("m/"): removes the prefix repeatedly
RECURSIVE TrimStartMatches(_)
TrimStartMatches(s) ==
    IF Len(s) >= 2 /\ s[1] = "m" /\ s[2] = "/"
    THEN TrimStartMatches(SubSeq(s, 3, Len(s)))
    ELSE s

\* str::split('/'): always at least one part
RECURSIVE Split(_)
Split(s) ==
    IF \E i \in 1..Len(s) : s[i] = "/"
    THEN LET i == CHOOSE j \in 1..Len(s) : s[j] = "/" /\ \A k \in 1..(j-1) : s[k] # "/"
         IN <<SubSeq(s, 1, i - 1)>> \o Split(SubSeq(s, i + 1, Len(s)))
    ELSE <<s>>

\* str::ends_with('\'')
EndsWithMarker(s) == Len(s) > 0 /\ s[Len(s)] = "'"

\* str::trim_end_matches('\''): removes the suffix repeatedly
RECURSIVE TrimEndMatches(_)
TrimEndMatches(s) ==
    IF EndsWithMarker(s) THEN TrimEndMatches(SubSeq(s, 1, Len(s) - 1)) ELSE s

\* one step of the checked accumulation acc * 10 + d of u32::from_str
RECURSIVE ParseDigits(_, _)
ParseDigits(s, acc) ==
    IF s = <<>> THEN Ok(acc)
    ELSE IF ~IsDigit(s[1]) THEN Err(<<"InvalidDigit">>)
    ELSE LET l == acc[2] * 10 + DigitVal(s[1])
             h == acc[1] * 10 + (l \div Limb)
         IN IF h >= Limb THEN Err(<<"PosOverflow">>)
            ELSE ParseDigits(Tail(s), <<h, l % Limb>>)

\* str::parse::<u32>(): optional leading '+', then decimal digits
ParseU32(s) ==
    IF s = <<>> THEN Err(<<"Empty">>)
    ELSE IF s[1] \in {"+", "-"} /\ Len(s) = 1 THEN Err(<<"InvalidDigit">>)
    ELSE IF s[1] = "+" THEN ParseDigits(Tail(s), <<0, 0>>)
    ELSE ParseDigits(s, <<0, 0>>)

\* u32::to_string(): decimal, no leading zeros
RECURSIVE to_string(_)
to_string(u) ==
    LET qh == u[1] \div 10
        t2 == (u[1] % 10) * Limb + u[2]
        ql == t2 \div 10
        d == Digits[(t2 % 10) + 1]
    IN IF qh = 0 /\ ql = 0 THEN <<d>> ELSE to_string(<<qh, ql>>) \o <<d>>

\* hex::encode: two lowercase hex digits per byte
HexDigits == <<"0", "1", "2", "3", "4", "5", "6", "7", "8", "9", "a", "b", "c", "d", "e", "f">>
RECURSIVE HexEncode(_)
HexEncode(b) ==
    IF b = <<>> THEN <<>>
    ELSE <<HexDigits[(b[1] \div 16) + 1], HexDigits[(b[1] % 16) + 1]>> \o HexEncode(Tail(b))

\* serde_cbor::to_vec / from_slice on the data items this code builds
ToVec(item) == Ok([cbor |-> TRUE, item |-> item])
FromSlice(data) ==
    IF data.cbor THEN Ok(data.item) ELSE Err(<<"Failed to decode CBOR: ", "syntax">>)

\* ------------------------------------------------------------------------
\* tron_sign_request.rs
\* ------------------------------------------------------------------------
DefaultPath == <<"m", "/", "4", "4", "'", "/", "1", "9", "5", "'", "/", "0", "'", "/", "0", "/", "0">>

\* the loop of encode_derivation_path over parts[i..]
RECURSIVE EncodeComponents(_, _)
EncodeComponents(parts, components) ==
    IF parts = <<>> THEN Ok(components)
    ELSE LET part == Head(parts)
             hardened == EndsWithMarker(part)
             index == ParseU32(TrimEndMatches(part))
         IN IF ~IsOk(index)
            THEN Err(<<"Invalid path component: ">> \o part)
            ELSE EncodeComponents(Tail(parts),
                    Append(components, VArray(<<AsI128(Inner(index)), VBool(hardened)>>)))

encode_derivation_path(path, xfp) ==
    LET parts == Split(TrimStartMatches(path))
        components == EncodeComponents(parts, <<>>)
    IN IF ~IsOk(components) THEN components
       ELSE LET map1 == MapInsert(<<>>, 1, VArray(Inner(components)))
                map2 == IF xfp # None THEN MapInsert(map1, 2, AsI128(xfp[1])) ELSE map1
            IN Ok(VMap(map2))

to_bytes(self) ==
    LET m1 == IF self.request_id # None
              THEN MapInsert(<<>>, REQUEST_ID, VBytes(self.request_id[1]))
              ELSE <<>>
        m2 == MapInsert(m1, SIGN_DATA, VBytes(self.sign_data))
        m3 == MapInsert(m2, DATA_TYPE, AsI128(self.data_type))
        path_cbor == encode_derivation_path(self.derivation_path, self.xfp)
    IN IF ~IsOk(path_cbor) THEN path_cbor
       ELSE LET m4 == MapInsert(m3, DERIVATION_PATH, Inner(path_cbor))
                m5 == IF self.address # None
                      THEN MapInsert(m4, ADDRESS, VText(self.address[1]))
                      ELSE m4
                m6 == IF self.origin # None
                      THEN MapInsert(m5, ORIGIN, VText(self.origin[1]))
                      ELSE m5
            IN ToVec(VMap(m6))

\* DecodeComponents with the hardened flag never written out
RECURSIVE DecodeComponents_unhardened(_, _)
DecodeComponents_unhardened(components, path) ==
    IF components = <<>> THEN path
    ELSE LET component == Head(components)
         IN IF Tag(component) = "array" /\ Len(Body(component)) >= 2
            THEN LET arr == Body(component)
                     index == IF Tag(arr[1]) = "integer" THEN AsU32(arr[1]) ELSE <<0, 0>>
                 IN DecodeComponents_unhardened(Tail(components),
                        path \o <<"/">> \o to_string(index))
            ELSE DecodeComponents_unhardened(Tail(components), path)

\* the loop of decode_derivation_path over the component array
RECURSIVE DecodeComponents(_, _)
DecodeComponents(components, path) ==
    IF components = <<>> THEN path
    ELSE LET component == Head(components)
         IN IF Tag(component) = "array" /\ Len(Body(component)) >= 2
            THEN LET arr == Body(component)
                     index == IF Tag(arr[1]) = "integer" THEN AsU32(arr[1]) ELSE <<0, 0>>
                     hardened == IF Tag(arr[2]) = "bool" THEN Body(arr[2]) ELSE FALSE
                 IN DecodeComponents(Tail(components),
                        path \o <<"/">> \o to_string(index)
                             \o (IF hardened THEN <<"'">> ELSE <<>>))
            ELSE DecodeComponents(Tail(components), path)

\* value is the Option<&Value> of map.get
decode_derivation_path(value) ==
    IF value # None /\ Tag(value[1]) = "map"
    THEN LET components == MapGet(Body(value[1]), 1)
         IN IF components # None /\ Tag(components[1]) = "array"
            THEN Ok(DecodeComponents(Body(components[1]), <<"m">>))
            ELSE Err(<<"Missing path components">>)
    ELSE Ok(DefaultPath)

\* map.get(k).and_then(|v| if let Value::<tag>(x) = v { Some(x) } else { None })
GetTagged(m, k, tag) ==
    IF MapGet(m, k) # None /\ Tag(MapGet(m, k)[1]) = tag THEN Some(MapGet(m, k)[1]) ELSE None

\* RequiredBytes with the missing field defaulted instead of reported
RequiredBytes_defaulted(m, k, message) ==
    IF GetTagged(m, k, "bytes") = None THEN Ok(<<>>) ELSE Ok(Body(GetTagged(m, k, "bytes")[1]))

\* map.get(k).and_then(bytes).ok_or(message)
RequiredBytes(m, k, message) ==
    IF GetTagged(m, k, "bytes") = None THEN Err(<<message>>)
    ELSE Ok(Body(GetTagged(m, k, "bytes")[1]))

\* DecodedXfp taking the fingerprint of the wire path
DecodedXfp_from_wire(m) ==
    IF /\ GetTagged(m, DERIVATION_PATH, "map") # None
       /\ GetTagged(Body(GetTagged(m, DERIVATION_PATH, "map")[1]), 2, "integer") # None
    THEN Some(AsU32(GetTagged(Body(GetTagged(m, DERIVATION_PATH, "map")[1]), 2, "integer")[1]))
    ELSE None

\* the xfp field of a decoded request
DecodedXfp(m) == None

TronSignRequest_try_from(data) ==
    LET cbor_value == FromSlice(data)
    IN IF ~IsOk(cbor_value) THEN cbor_value
       ELSE IF Tag(Inner(cbor_value)) # "map" THEN Err(<<"Expected CBOR map">>)
       ELSE LET map == Body(Inner(cbor_value))
                request_id == IF GetTagged(map, REQUEST_ID, "bytes") # None
                              THEN Some(Body(GetTagged(map, REQUEST_ID, "bytes")[1])) ELSE None
                sign_data == RequiredBytes(map, SIGN_DATA, "Missing sign_data")
                data_type == IF GetTagged(map, DATA_TYPE, "integer") # None
                             THEN AsU32(GetTagged(map, DATA_TYPE, "integer")[1])
                             ELSE U32(1)
                derivation_path == decode_derivation_path(MapGet(map, DERIVATION_PATH))
                address == IF GetTagged(map, ADDRESS, "text") # None
                           THEN Some(Body(GetTagged(map, ADDRESS, "text")[1])) ELSE None
                origin == IF GetTagged(map, ORIGIN, "text") # None
                          THEN Some(Body(GetTagged(map, ORIGIN, "text")[1])) ELSE None
            IN IF ~IsOk(sign_data) THEN sign_data
               ELSE IF ~IsOk(derivation_path) THEN derivation_path
               ELSE Ok([request_id |-> request_id,
                        sign_data |-> Inner(sign_data),
                        data_type |-> data_type,
                        derivation_path |-> Inner(derivation_path),
                        xfp |-> DecodedXfp(map),
                        address |-> address,
                        origin |-> origin])

\* TronSignRequest::new
TronSignRequest_new(request_id, sign_data, data_type, derivation_path, xfp, address, origin) ==
    [request_id |-> request_id,
     sign_data |-> sign_data,
     data_type |-> data_type,
     derivation_path |-> derivation_path,
     xfp |-> xfp,
     address |-> address,
     origin |-> origin]

\* #[derive(Default)] for TronSignRequest
TronSignRequest_default ==
    TronSignRequest_new(None, <<>>, U32(0), <<>>, None, None, None)

get_request_id(self) == self.request_id
get_sign_data(self) == self.sign_data
get_derivation_path(self) == self.derivation_path
get_address(self) == self.address
get_origin(self) == self.origin

\* ------------------------------------------------------------------------
\* tron_signature.rs
\* ------------------------------------------------------------------------
TronSignature_try_from(data) ==
    LET cbor_value == FromSlice(data)
    IN IF ~IsOk(cbor_value) THEN cbor_value
       ELSE IF Tag(Inner(cbor_value)) # "map" THEN Err(<<"Expected CBOR map">>)
       ELSE LET map == Body(Inner(cbor_value))
                request_id == IF GetTagged(map, REQUEST_ID, "bytes") # None
                              THEN Some(Body(GetTagged(map, REQUEST_ID, "bytes")[1])) ELSE None
                signature == RequiredBytes(map, SIGNATURE, "Missing signature")
            IN IF ~IsOk(signature) THEN signature
               ELSE Ok([request_id |-> request_id, signature |-> Inner(signature)])

\* ------------------------------------------------------------------------
\* Boundary adapter: the tagged result handed to the host
\* ------------------------------------------------------------------------
success_object(obj) == <<"success_object", <<obj>>>>
success_string(s) == <<"success_string", s>>
success_null == <<"success_null", <<>>>>
error(message) == <<"error", message>>
\* a response: which of the four it is, and what it carries
Kind(resp) == resp[1]
Payload(resp) == resp[2]

fragment_len == 400
TRON_SIGN_REQUEST_TYPE == "tron-sign-request"

resolve(data) ==
    LET result == TronSignRequest_try_from(data)
    IN IF IsOk(result) THEN success_object(Inner(result)) ELSE error(Inner(result))

signature_resolve(data) ==
    LET result == TronSignature_try_from(data)
    IN IF IsOk(result) THEN success_object(Inner(result)) ELSE error(Inner(result))

\* NonEmpty without the filter
NonEmpty_unfiltered(v) == Some(v)

\* Some(v).filter(|s| !s.is_empty())
NonEmpty(v) == IF v # <<>> THEN Some(v) ELSE None

\* the arguments are the outcomes of parse_ptr_string_to_bytes /
\* convert_ptr_string_to_string on the host's strings
tron_sign_request_construct(request_id, sign_data, path, xfp, address, origin, data_type) ==
    IF ~IsOk(request_id) THEN error(Inner(request_id))
    ELSE IF ~IsOk(sign_data) THEN error(Inner(sign_data))
    ELSE IF ~IsOk(path) THEN error(Inner(path))
    ELSE IF ~IsOk(address) THEN error(Inner(address))
    ELSE IF ~IsOk(origin) THEN error(Inner(origin))
    ELSE success_object(TronSignRequest_new(
            Some(Inner(request_id)),
            Inner(sign_data),
            data_type,
            Inner(path),
            Some(xfp),
            NonEmpty(Inner(address)),
            NonEmpty(Inner(origin))))

tron_sign_request_get_ur_encoder(self) ==
    LET message == to_bytes(self)
    IN IF IsOk(message)
       THEN success_object([message |-> Inner(message),
                            max_fragment_len |-> fragment_len,
                            ur_type |-> TRON_SIGN_REQUEST_TYPE])
       ELSE error(Inner(message))

tron_sign_request_get_request_id(self) ==
    IF get_request_id(self) = None THEN success_null
    ELSE success_string(HexEncode(get_request_id(self)[1]))

tron_sign_request_get_sign_data(self) == success_string(HexEncode(get_sign_data(self)))

tron_sign_request_get_derivation_path(self) == success_string(get_derivation_path(self))

tron_signature_get_signature(self) == success_string(HexEncode(self.signature))

\* tron_signature_get_request_id answering an absent id with empty text
tron_signature_get_request_id_lenient(self) ==
    IF self.request_id # None
    THEN success_string(HexEncode(self.request_id[1]))
    ELSE success_string(<<>>)

tron_signature_get_request_id(self) ==
    IF self.request_id # None
    THEN success_string(HexEncode(self.request_id[1]))
    ELSE error(<<"No request id supplied">>)

\* ------------------------------------------------------------------------
\* Inputs
\* ------------------------------------------------------------------------
SeqsUpTo(S, n) == UNION {[1..k -> S] : k \in 0..n}

PathAlphabet == {"m", "/", "5", "'", "x", "+"}
RawPaths == SeqsUpTo(PathAlphabet, MaxPathLen)

ComponentTexts ==
    { <<"4", "4", "'">>, <<"0">>, <<"5", "x">>, <<>>, <<"+", "5">>, <<"5", "'", "'">>,
      <<"0", "0", "7", "'">>,
      <<"4", "2", "9", "4", "9", "6", "7", "2", "9", "5">>,
      <<"4", "2", "9", "4", "9", "6", "7", "2", "9", "6", "'">> }

RECURSIVE JoinPath(_)
JoinPath(cs) == IF Len(cs) = 1 THEN cs[1] ELSE cs[1] \o <<"/">> \o JoinPath(Tail(cs))

StructuredPaths ==
    { <<"m", "/">> \o JoinPath(cs) :
        cs \in UNION {[1..k -> ComponentTexts] : k \in 1..MaxComponents} }

NotablePaths ==
    { DefaultPath,
      <<"m", "/", "4", "4", "'", "/", "1", "9", "5", "'", "/", "5", "x", "/", "0", "/", "y">>,
      <<"m", "/", "4", "4", "'", "/", "1", "9", "5", "'", "/", "0", "'", "/", "0", "/", "1", "'">>,
      <<"4", "4", "'", "/", "1", "9", "5", "'">>,
      <<"m", "/", "0", "/", "4", "2", "9", "4", "9", "6", "7", "2", "9", "5", "'", "/", "6", "5", "5", "3", "6">>,
      <<"m", "/", "m", "/", "4", "4", "'">>,
      <<"m">>,
      <<>> }

SomeXfp == <<4660, 22136>>
ByteStrings == {<<>>, <<1, 255>>}
Texts == {<<>>, <<"T">>}
ConversionError == Err(<<"conversion failed">>)

\* arguments of TronSignRequest::new: every path with the other fields fixed,
\* and every combination of the other fields with the notable paths
NewInputs ==
    [request_id : {None}, sign_data : {<<1, 255>>}, data_type : {U32(1)},
     derivation_path : RawPaths \cup StructuredPaths, xfp : {Some(SomeXfp)},
     address : {None}, origin : {None}]
    \cup
    [request_id : {None, Some(<<>>)}, sign_data : ByteStrings,
     data_type : {U32(1), U32(2), U32(3), U32(7)},
     derivation_path : NotablePaths, xfp : {None, Some(SomeXfp)},
     address : {None, Some(<<"T">>)}, origin : {None, Some(<<"o">>)}]

\* outcomes of the host-string conversions handed to the FFI constructor
ConstructInputs ==
    [request_id : {Ok(<<7>>), ConversionError},
     sign_data : {Ok(<<1, 255>>), ConversionError},
     path : {Ok(q) : q \in NotablePaths} \cup {ConversionError},
     xfp : {U32(0), SomeXfp},
     address : {Ok(a) : a \in Texts} \cup {ConversionError},
     origin : {Ok(a) : a \in Texts} \cup {ConversionError},
     data_type : {U32(1), U32(3)}]

\* entries of a wire path's component array, well-formed and not
PathEntries ==
    { VArray(<<VInteger(0, U32(44)), VBool(TRUE)>>),
      VArray(<<VInteger(0, U32(0)), VBool(FALSE)>>),
      VArray(<<VInteger(1, U32(5)), VBool(TRUE)>>),
      VArray(<<VInteger(0, U32(5)), VInteger(0, U32(1))>>),
      VArray(<<VText(<<"x">>), VBool(TRUE)>>),
      VArray(<<VInteger(0, U32(5))>>),
      VInteger(0, U32(9)) }

WirePaths ==
    { VMap(m) : m \in
        { (1 :> VArray(a)) : a \in SeqsUpTo(PathEntries, MaxEntries) }
        \cup { (1 :> VArray(a)) @@ (2 :> VInteger(0, SomeXfp)) : a \in SeqsUpTo(PathEntries, MaxEntries) }
        \cup { <<>>, (1 :> VInteger(0, U32(3))), (2 :> VInteger(0, SomeXfp)) } }
    \cup { VInteger(0, U32(4)), VText(DefaultPath) }

DefaultWirePath == Inner(encode_derivation_path(DefaultPath, Some(SomeXfp)))

\* a map from the chosen keys; Absent marks a key left out
Absent == <<"absent", <<>>>>
MakeMap(f) == VMap([k \in {j \in DOMAIN f : f[j] # Absent} |-> f[k]])

RequestMaps ==
    { MakeMap((2 :> sd) @@ (3 :> dt) @@ (4 :> dp)) :
        sd \in {Absent, VBytes(<<1, 255>>)},
        dt \in {Absent, VInteger(0, U32(7)), VInteger(1, U32(2))},
        dp \in WirePaths }
    \cup
    { MakeMap((1 :> id) @@ (2 :> sd) @@ (3 :> dt) @@ (4 :> dp) @@ (5 :> ad) @@ (6 :> og)) :
        id \in {Absent, VBytes(<<7>>), VText(<<"7">>)},
        sd \in {Absent, VBytes(<<>>), VBytes(<<1, 255>>), VInteger(0, U32(2))},
        dt \in {Absent, VInteger(0, U32(1)), VInteger(0, U32(2)), VInteger(0, U32(3)),
                VInteger(0, U32(0)), VInteger(-1, <<65535, 65535>>), VText(<<"1">>)},
        dp \in {Absent, VMap(<<>>), DefaultWirePath},
        ad \in {Absent, VText(<<"T">>), VInteger(0, U32(5))},
        og \in {Absent, VText(<<"o">>)} }

Wire(item) == [cbor |-> TRUE, item |-> item]
NotCbor == [cbor |-> FALSE, item |-> <<>>]

RequestPayloads ==
    {Wire(m) : m \in RequestMaps}
    \cup {Wire(VInteger(0, U32(1))), Wire(VBytes(<<1, 255>>)), Wire(VArray(<<>>)), NotCbor}

SignaturePayloads ==
    { Wire(MakeMap((1 :> id) @@ (2 :> sg))) :
        id \in {Absent, VBytes(<<>>), VBytes(<<7, 160>>), VText(<<"7">>)},
        sg \in {Absent, VBytes(<<>>), VBytes(<<1, 255>>), VText(<<"s">>)} }
    \cup {Wire(VBytes(<<1, 255>>)), NotCbor}

\* ------------------------------------------------------------------------
\* State: the objects the host holds handles to, and the last call's result
\* ------------------------------------------------------------------------
VARIABLES
    request,      \* Option: the TronSignRequest built by new / construct
    args,         \* Option: the arguments tron_sign_request_construct was given
    received,     \* Option: the bytes the registry handed to resolve
    resolved,     \* Option: the TronSignRequest resolve decoded from them
    encoder,      \* Option: the ur encoder built by get_ur_encoder
    echoed,       \* Option: the TronSignRequest decoded from the encoder's message
    sigReceived,  \* Option: the bytes handed to the signature resolve
    sigResolved,  \* Option: the TronSignature decoded from them
    call          \* the last call: [fn |-> entry point, resp |-> its result]

vars == <<request, args, received, resolved, encoder, echoed, sigReceived, sigResolved, call>>

Returned(fn, resp) == [fn |-> fn, resp |-> resp]

Idle ==
    /\ request = None /\ args = None /\ received = None /\ resolved = None
    /\ encoder = None /\ echoed = None /\ sigReceived = None /\ sigResolved = None

Init ==
    /\ request = None /\ args = None /\ received = None /\ resolved = None
    /\ encoder = None /\ echoed = None /\ sigReceived = None /\ sigResolved = None
    /\ call = Returned("none", success_null)

\* the object a success_object response carries, if any
ObjectOf(resp) == IF Kind(resp) = "success_object" THEN Some(Payload(resp)[1]) ELSE None

\* tron_sign_request_new()
New ==
    /\ Idle
    /\ request' = Some(TronSignRequest_default)
    /\ call' = Returned("tron_sign_request_new", success_object(TronSignRequest_default))
    /\ UNCHANGED <<args, received, resolved, encoder, echoed, sigReceived, sigResolved>>

\* TronSignRequest::new(..) called from Rust
RustNew ==
    /\ Idle
    /\ \E i \in NewInputs :
        LET r == TronSignRequest_new(i.request_id, i.sign_data, i.data_type,
                                     i.derivation_path, i.xfp, i.address, i.origin)
        IN /\ request' = Some(r)
           /\ call' = Returned("TronSignRequest::new", success_object(r))
    /\ UNCHANGED <<args, received, resolved, encoder, echoed, sigReceived, sigResolved>>

\* tron_sign_request_construct(..)
Construct ==
    /\ Idle
    /\ \E i \in ConstructInputs :
        LET resp == tron_sign_request_construct(i.request_id, i.sign_data, i.path, i.xfp,
                                                i.address, i.origin, i.data_type)
        IN /\ request' = ObjectOf(resp)
           /\ args' = IF Kind(resp) = "success_object" THEN Some(i) ELSE None
           /\ call' = Returned("tron_sign_request_construct", resp)
    /\ UNCHANGED <<received, resolved, encoder, echoed, sigReceived, sigResolved>>

\* resolve(data) of tron_sign_request.rs on bytes from outside
Resolve ==
    /\ Idle
    /\ \E data \in RequestPayloads :
        /\ received' = Some(data)
        /\ resolved' = ObjectOf(resolve(data))
        /\ call' = Returned("resolve", resolve(data))
    /\ UNCHANGED <<request, args, encoder, echoed, sigReceived, sigResolved>>

\* the sign request the host holds: built here, or decoded from received bytes
Subject == IF request # None THEN request ELSE resolved

\* tron_sign_request_get_ur_encoder(subject)
GetUrEncoder ==
    /\ Subject # None
    /\ encoder = None
    /\ LET resp == tron_sign_request_get_ur_encoder(Subject[1])
       IN /\ encoder' = ObjectOf(resp)
          /\ call' = Returned("tron_sign_request_get_ur_encoder", resp)
    /\ UNCHANGED <<request, args, received, resolved, echoed, sigReceived, sigResolved>>

\* resolve(data) on the message the encoder carries
ResolveEncoded ==
    /\ encoder # None
    /\ echoed = None
    /\ LET resp == resolve(encoder[1].message)
       IN /\ echoed' = ObjectOf(resp)
          /\ call' = Returned("resolve", resp)
    /\ UNCHANGED <<request, args, received, resolved, encoder, sigReceived, sigResolved>>

GetRequestId ==
    /\ Subject # None
    /\ call' = Returned("tron_sign_request_get_request_id",
                        tron_sign_request_get_request_id(Subject[1]))
    /\ UNCHANGED <<request, args, received, resolved, encoder, echoed, sigReceived, sigResolved>>

GetSignData ==
    /\ Subject # None
    /\ call' = Returned("tron_sign_request_get_sign_data",
                        tron_sign_request_get_sign_data(Subject[1]))
    /\ UNCHANGED <<request, args, received, resolved, encoder, echoed, sigReceived, sigResolved>>

GetDerivationPath ==
    /\ Subject # None
    /\ call' = Returned("tron_sign_request_get_derivation_path",
                        tron_sign_request_get_derivation_path(Subject[1]))
    /\ UNCHANGED <<request, args, received, resolved, encoder, echoed, sigReceived, sigResolved>>

\* TronSignRequest::get_address, read from Rust
GetAddress ==
    /\ Subject # None
    /\ call' = Returned("get_address", <<"option", get_address(Subject[1])>>)
    /\ UNCHANGED <<request, args, received, resolved, encoder, echoed, sigReceived, sigResolved>>

\* TronSignRequest::get_origin, read from Rust
GetOrigin ==
    /\ Subject # None
    /\ call' = Returned("get_origin", <<"option", get_origin(Subject[1])>>)
    /\ UNCHANGED <<request, args, received, resolved, encoder, echoed, sigReceived, sigResolved>>

\* resolve(data) of tron_signature.rs
SignatureResolve ==
    /\ Idle
    /\ \E data \in SignaturePayloads :
        /\ sigReceived' = Some(data)
        /\ sigResolved' = ObjectOf(signature_resolve(data))
        /\ call' = Returned("signature_resolve", signature_resolve(data))
    /\ UNCHANGED <<request, args, received, resolved, encoder, echoed>>

SignatureGetSignature ==
    /\ sigResolved # None
    /\ call' = Returned("tron_signature_get_signature",
                        tron_signature_get_signature(sigResolved[1]))
    /\ UNCHANGED <<request, args, received, resolved, encoder, echoed, sigReceived, sigResolved>>

SignatureGetRequestId ==
    /\ sigResolved # None
    /\ call' = Returned("tron_signature_get_request_id",
                        tron_signature_get_request_id(sigResolved[1]))
    /\ UNCHANGED <<request, args, received, resolved, encoder, echoed, sigReceived, sigResolved>>

\* the host releases every handle it holds and drops the received bytes
Release ==
    /\ ~Idle
    /\ request' = None /\ args' = None /\ received' = None /\ resolved' = None
    /\ encoder' = None /\ echoed' = None /\ sigReceived' = None /\ sigResolved' = None
    /\ call' = Returned("none", success_null)

Next ==
    \/ New
    \/ RustNew
    \/ Construct
    \/ Resolve
    \/ GetUrEncoder
    \/ ResolveEncoded
    \/ GetRequestId
    \/ GetSignData
    \/ GetDerivationPath
    \/ GetAddress
    \/ GetOrigin
    \/ SignatureResolve
    \/ SignatureGetSignature
    \/ SignatureGetRequestId
    \/ Release

Spec == Init /\ [][Next]_vars

\* ------------------------------------------------------------------------
\* Vocabulary of the properties
\* ------------------------------------------------------------------------
MaxU32Text == <<"4", "2", "9", "4", "9", "6", "7", "2", "9", "5">>

RECURSIVE StripZeros(_)
StripZeros(d) == IF d # <<>> /\ d[1] = "0" THEN StripZeros(Tail(d)) ELSE d

\* a <= b for digit strings of equal length
RECURSIVE DigitsLeq(_, _)
DigitsLeq(a, b) ==
    IF a = <<>> THEN TRUE
    ELSE IF DigitVal(a[1]) < DigitVal(b[1]) THEN TRUE
    ELSE IF DigitVal(a[1]) > DigitVal(b[1]) THEN FALSE
    ELSE DigitsLeq(Tail(a), Tail(b))

\* a non-empty string of decimal digits whose value is at most 2^32 - 1
IsDecimalU32(d) ==
    /\ d # <<>>
    /\ \A i \in 1..Len(d) : IsDigit(d[i])
    /\ \/ Len(StripZeros(d)) < 10
       \/ Len(StripZeros(d)) = 10 /\ DigitsLeq(StripZeros(d), MaxU32Text)

\* a decimal u32 read generously: an explicit plus sign is allowed
IsIndexText(d) == IsDecimalU32(IF d # <<>> /\ d[1] = "+" THEN Tail(d) ELSE d)

\* a component without its one optional trailing hardening marker
Unmarked(c) == IF EndsWithMarker(c) THEN SubSeq(c, 1, Len(c) - 1) ELSE c

\* "m/" followed by one or more components, each a decimal u32 with an
\* optional trailing hardening marker
WellFormedPath(q) ==
    /\ Len(q) >= 3 /\ q[1] = "m" /\ q[2] = "/"
    /\ LET cs == Split(SubSeq(q, 3, Len(q)))
       IN \A i \in 1..Len(cs) : IsDecimalU32(Unmarked(cs[i]))

\* the ordered (index, hardened) pairs a well-formed textual path denotes
PathPairs(q) ==
    LET cs == Split(SubSeq(q, 3, Len(q)))
    IN [i \in 1..Len(cs) |->
            <<Inner(ParseDigits(Unmarked(cs[i]), <<0, 0>>)), EndsWithMarker(cs[i])>>]

IsMapPayload(data) == data.cbor /\ Tag(data.item) = "map"
HasTagged(data, k, tag) ==
    IsMapPayload(data) /\ k \in DOMAIN Body(data.item) /\ Tag(Body(data.item)[k]) = tag
Lacks(data, k) == IsMapPayload(data) /\ k \notin DOMAIN Body(data.item)

\* the last call was resolve on bytes from outside (not on an encoder's message)
ResolvedOutside == received # None /\ encoder = None /\ call.fn = "resolve"
\* the last call was resolve on the message of the encoder
ResolvedEcho == encoder # None /\ call.fn = "resolve"
JustEncoded == call.fn = "tron_sign_request_get_ur_encoder"

ValidTags == {U32(1), U32(2), U32(3)}

\* ------------------------------------------------------------------------
\* Properties
\* ------------------------------------------------------------------------

\* C1: a request with a well-formed textual path and data_type 1, 2 or 3
\* encodes, the encoding decodes, and the decoded record has the same
\* sign_data, the same data_type and the same ordered (index, hardened)
\* pairs; m/44'/195'/0'/0/0 without fingerprint comes back as
\* (44,h) (195,h) (0,h) (0,-) (0,-).
C1_RoundTrip ==
    (/\ request # None
     /\ WellFormedPath(request[1].derivation_path)
     /\ request[1].data_type \in ValidTags)
    =>
    /\ JustEncoded => Kind(call.resp) = "success_object" /\ encoder # None
    /\ ResolvedEcho =>
        /\ Kind(call.resp) = "success_object"
        /\ echoed # None
        /\ echoed[1].sign_data = request[1].sign_data
        /\ echoed[1].data_type = request[1].data_type
        /\ WellFormedPath(echoed[1].derivation_path)
        /\ PathPairs(echoed[1].derivation_path) = PathPairs(request[1].derivation_path)
        /\ (request[1].derivation_path = DefaultPath /\ request[1].xfp = None) =>
              PathPairs(echoed[1].derivation_path) =
                  << <<U32(44), TRUE>>, <<U32(195), TRUE>>, <<U32(0), TRUE>>,
                     <<U32(0), FALSE>>, <<U32(0), FALSE>> >>

C1_Witness ==
    /\ request # None /\ echoed # None /\ ResolvedEcho
    /\ request[1].derivation_path = DefaultPath
    /\ request[1].xfp = None
    /\ request[1].data_type = U32(3)

\* C2: decoding a map with a byte-string sign_data never fails because of
\* what is under key 4, and an absent or structurally malformed key 4 gives
\* the default path.
C2_PathNeverFailsDecode ==
    (ResolvedOutside /\ HasTagged(received[1], SIGN_DATA, "bytes"))
    =>
    /\ Kind(call.resp) = "success_object"
    /\ resolved # None
    /\ LET m == Body(received[1].item)
           malformed ==
               \/ DERIVATION_PATH \notin DOMAIN m
               \/ Tag(m[DERIVATION_PATH]) # "map"
               \/ 1 \notin DOMAIN Body(m[DERIVATION_PATH])
               \/ Tag(Body(m[DERIVATION_PATH])[1]) # "array"
       IN malformed => resolved[1].derivation_path = DefaultPath

\* the (index, hardened) pairs a wire path carries, when every entry of its
\* component array is [integer, bool]
EntriesWellFormed(dp) ==
    /\ Tag(dp) = "map" /\ 1 \in DOMAIN Body(dp) /\ Tag(Body(dp)[1]) = "array"
    /\ \A i \in 1..Len(Body(Body(dp)[1])) :
          LET e == Body(Body(dp)[1])[i]
          IN Tag(e) = "array" /\ Len(Body(e)) = 2 /\ Tag(Body(e)[1]) = "integer" /\ Tag(Body(e)[2]) = "bool"
CarriedPairs(dp) ==
    LET entries == Body(Body(dp)[1])
    IN [i \in 1..Len(entries) |-> <<Body(entries[i])[1], Body(Body(entries[i])[2])>>]

\* C3: whenever decoding a payload succeeds, re-encoding the decoded record
\* succeeds, and decoding that output gives the sign_data, the data_type
\* value and the (index, hardened) sequence the original payload carried.
C3_DecodeThenEncode ==
    resolved # None
    =>
    /\ JustEncoded => Kind(call.resp) = "success_object" /\ encoder # None
    /\ ResolvedEcho =>
        /\ echoed # None
        /\ echoed[1].sign_data = Body(Body(received[1].item)[SIGN_DATA])
        /\ HasTagged(received[1], DATA_TYPE, "integer") =>
              AsI128(echoed[1].data_type) = Body(received[1].item)[DATA_TYPE]
        /\ (/\ DERIVATION_PATH \in DOMAIN Body(received[1].item)
            /\ EntriesWellFormed(Body(received[1].item)[DERIVATION_PATH])) =>
              /\ WellFormedPath(echoed[1].derivation_path)
              /\ [i \in DOMAIN PathPairs(echoed[1].derivation_path) |->
                     <<AsI128(PathPairs(echoed[1].derivation_path)[i][1]),
                       PathPairs(echoed[1].derivation_path)[i][2]>>]
                 = CarriedPairs(Body(received[1].item)[DERIVATION_PATH])

\* C4: a map without a byte string under key 2 does not decode: both
\* try_from report the missing field, resolve answers with an error and no
\* object is produced.
C4_MissingPayloadField ==
    /\ (received # None /\ ~HasTagged(received[1], SIGN_DATA, "bytes")) => resolved = None
    /\ (ResolvedOutside /\ IsMapPayload(received[1])
            /\ ~HasTagged(received[1], SIGN_DATA, "bytes")) =>
          /\ TronSignRequest_try_from(received[1]) = Err(<<"Missing sign_data">>)
          /\ call.resp = error(<<"Missing sign_data">>)
    /\ (sigReceived # None /\ ~HasTagged(sigReceived[1], SIGNATURE, "bytes")) =>
          sigResolved = None
    /\ (call.fn = "signature_resolve" /\ IsMapPayload(sigReceived[1])
            /\ ~HasTagged(sigReceived[1], SIGNATURE, "bytes")) =>
          /\ TronSignature_try_from(sigReceived[1]) = Err(<<"Missing signature">>)
          /\ call.resp = error(<<"Missing signature">>)

C4_Witness ==
    /\ ResolvedOutside
    /\ IsMapPayload(received[1])
    /\ Lacks(received[1], SIGN_DATA)
    /\ HasTagged(received[1], DERIVATION_PATH, "map")
    /\ HasTagged(received[1], DATA_TYPE, "integer")
    /\ Kind(call.resp) = "error"

\* C5: an integer tag other than 1, 2 or 3 under key 3 is a decoding error,
\* so every decoded record has data_type in {1, 2, 3}.
C5_UnknownTagRejected ==
    /\ resolved # None => resolved[1].data_type \in ValidTags
    /\ (/\ ResolvedOutside
        /\ HasTagged(received[1], DATA_TYPE, "integer")
        /\ Body(received[1].item)[DATA_TYPE] \notin {AsI128(u) : u \in ValidTags})
       => Kind(call.resp) = "error"

\* C6: a map with a byte-string sign_data and no key 3 decodes, and the
\* decoded data_type is Transaction (1).
C6_MissingTypeDefaults ==
    (/\ ResolvedOutside
     /\ HasTagged(received[1], SIGN_DATA, "bytes")
     /\ Lacks(received[1], DATA_TYPE))
    =>
    /\ Kind(call.resp) = "success_object"
    /\ resolved # None
    /\ resolved[1].data_type = U32(1)

\* C7: a signature map holding only key 2 with a byte string decodes with
\* request_id absent, and tron_signature_get_request_id then answers with the
\* error "No request id supplied"; with a request_id present, even an empty
\* one, it answers with a success carrying the hex text.
C7_AbsentIdIsAnError ==
    /\ (/\ call.fn = "signature_resolve"
        /\ IsMapPayload(sigReceived[1])
        /\ DOMAIN Body(sigReceived[1].item) = {SIGNATURE}
        /\ Tag(Body(sigReceived[1].item)[SIGNATURE]) = "bytes")
       => /\ Kind(call.resp) = "success_object"
          /\ sigResolved # None
          /\ sigResolved[1].request_id = None
    /\ call.fn = "tron_signature_get_request_id" =>
          /\ Lacks(sigReceived[1], REQUEST_ID) =>
                call.resp = error(<<"No request id supplied">>)
          /\ HasTagged(sigReceived[1], REQUEST_ID, "bytes") =>
                /\ Kind(call.resp) = "success_string"
                /\ Len(Payload(call.resp)) = 2 * Len(Body(Body(sigReceived[1].item)[REQUEST_ID]))
                /\ Body(Body(sigReceived[1].item)[REQUEST_ID]) = <<7, 160>> =>
                      Payload(call.resp) = <<"0", "7", "a", "0">>

C7_Witness ==
    /\ call.fn = "tron_signature_get_request_id"
    /\ DOMAIN Body(sigReceived[1].item) = {SIGNATURE}
    /\ Kind(call.resp) = "error"

C9_EmptyMeansAbsent ==
    (args # None /\ request # None)
    =>
    /\ args[1].address = Ok(<<>>) =>
          /\ request[1].address = None
          /\ call.fn = "get_address" => Payload(call.resp) = None
          /\ encoder # None => ADDRESS \notin DOMAIN Body(encoder[1].message.item)
    /\ args[1].origin = Ok(<<>>) =>
          /\ request[1].origin = None
          /\ call.fn = "get_origin" => Payload(call.resp) = None
          /\ encoder # None => ORIGIN \notin DOMAIN Body(encoder[1].message.item)

C9_Witness ==
    /\ args # None /\ request # None /\ encoder # None
    /\ args[1].address = Ok(<<>>)
    /\ args[1].origin = Ok(<<"T">>)
    /\ ORIGIN \in DOMAIN Body(encoder[1].message.item)

\* the first component of the path that, without its trailing hardening
\* marker, is not a decimal u32 (even with a plus sign), if there is one
FirstBadComponent(q) ==
    LET cs == Split(TrimStartMatches(q))
        bad == {i \in 1..Len(cs) : ~IsIndexText(Unmarked(cs[i]))}
    IN IF bad = {} THEN None
       ELSE Some(cs[CHOOSE i \in bad : \A j \in bad : i <= j])

\* C10: encoding a request whose path has a component that, with its
\* trailing hardening marker stripped, is not a decimal u32 fails with an
\* error naming the first such component, and produces no bytes.
C10_BadComponentRejected ==
    (/\ request # None
     /\ JustEncoded
     /\ FirstBadComponent(request[1].derivation_path) # None)
    =>
    /\ call.resp = error(<<"Invalid path component: ">>
                            \o FirstBadComponent(request[1].derivation_path)[1])
    /\ encoder = None

====
